---- MODULE Spec2Model ----
(***************************************************************************)
(* Authorization subsystem of systemd-mcp.                                 *)
(*                                                                         *)
(*   Spec        the polkit/D-Bus bridge (dbus.AuthKeeper) as main() sets  *)
(*               it up, including the --noauth configuration               *)
(*   SpecVerify  token verification (remoteauth.Oauth2Auth.VerifyJWT)      *)
(*   SpecSteps   the two checks of the bridge step by step, concurrent with *)
(*               the bus handlers, with the clock of the call              *)
(*   SpecUnits   the ChangeUnitState handler (systemd.Connection)          *)
(*   SpecRemote  the capability checks of remoteauth.Oauth2Auth and the    *)
(*               key-set discovery (remoteauth.GetJwksURI)                 *)
(*   SpecLogin   the session locality test (AuthKeeper.IsLocal) against    *)
(*               the login manager                                         *)
(*   SpecMain    the start of the process (main) up to serving             *)
(*   SpecTools   the tool handlers main registers, each with its check     *)
(*   SpecMan     the paging and filtering of a manual page                 *)
(*   SpecLog     the journal tool with its timeout wrapper                 *)
(*   SpecJobs    ChangeUnitState and the job results on Connection.rchannel *)
(*   SpecFacade  the authorization facade (package authkeeper), which is   *)
(*               known from its tests and from the specification only      *)
(*                                                                         *)
(* Error values are modelled by their message, a sequence of words, so     *)
(* that a test such as assert.ErrorContains can be evaluated on them.      *)
(***************************************************************************)
EXTENDS Integers, Sequences, FiniteSets, TLC

VARIABLES
    noauth,         \* --noauth was passed (fixed at start)
    euid,           \* os.Geteuid() of the daemon (fixed at start)
    ReadAllowed,    \* AuthKeeper.ReadAllowed
    WriteAllowed,   \* AuthKeeper.WriteAllowed
    sender,         \* AuthKeeper.sender, "" when none is recorded
    sessionRemote,  \* Remote property of the session logind reports
    last,           \* outcome of the last completed call on the AuthKeeper
    afterDeauth,    \* the call completed before it was Deauthorize
    claims,         \* Oauth2Auth.claims, the map VerifyJWT decodes into
    verified,       \* outcome of the last VerifyJWT
    authz,          \* outcome of the last remote IsRead/IsWriteAuthorized
    jwks,           \* outcome of the last GetJwksURI
    check,          \* the IsRead/IsWriteAuthorized call in progress, by steps
    unit,           \* the ChangeUnitState call in progress
    login,          \* the login manager's answers and the last IsLocal() on them
    proc,           \* main(): configuration, bus, position and AuthKeeper of the process
    facade,         \* authkeeper.AuthKeeper: the backends set and the last Mode()
    tool,           \* the registered tools and the tool call in progress
    man,            \* the input and the result of parseAndFilterManPage
    log,            \* HostLog: the journal handle, the ListLogTimeout calls and their workers
    jobs            \* Connection.rchannel, the systemd jobs and the ChangeUnitState call waiting on them

localVars == <<noauth, euid, ReadAllowed, WriteAllowed, sender, sessionRemote,
               last, afterDeauth>>
remoteVars == <<claims, verified, authz, jwks>>
stepVars == <<check, unit>>
sideVars == <<login, proc, facade, tool, man, log, jobs>>
vars == <<noauth, euid, ReadAllowed, WriteAllowed, sender, sessionRemote,
          last, afterDeauth, claims, verified, authz, jwks,
          check, unit, login, proc, facade, tool, man, log, jobs>>

----------------------------------------------------------------------------
(* Words and substring test used for error messages. *)

NoErr == << >>

\* assert.ErrorContains(err, sub): err is not nil and its message contains sub
ErrorContains(err, sub) ==
    /\ err # NoErr
    /\ \E i \in 1..(Len(err) - Len(sub) + 1) :
          SubSeq(err, i, i + Len(sub) - 1) = sub

----------------------------------------------------------------------------
(* The D-Bus bridge: src/dbus/dbus.go, set up by src/systemd-mcp.go.       *)

DBusName == "org.opensuse.systemdmcp"
ManageUnits == "org.freedesktop.systemd1.manage-units"
ManageUnitFiles == "org.freedesktop.systemd1.manage-unit-files"

Self == ":1.self"                   \* unique bus name of the daemon itself
Peers == {":1.peerB", ":1.peerC"}   \* unique bus names of other processes
Euids == {0, 1000}
Permissions == {"", ManageUnitFiles}

\* What polkit's CheckAuthorization can answer for a subject: authorized,
\* not authorized, or a failed call.  An empty bus name is no subject polkit
\* can resolve, so that call fails.
PolicyAnswers(subject) ==
    IF subject = "" THEN {"failed"} ELSE {"authorized", "denied", "failed"}

ErrAuthError == <<"Error", "checking", "authorization:", "dbus", "call", "failed">>
ErrAccessDenied == <<"Authorization", "denied.">>

\* checkDbusAuth: the state, the *dbus.Error message, and the policy calls made
\* A variant of checkDbusAuth that takes "not authorized" for a grant
checkDbusAuthAcceptsDenied(uid, subject, actionID, answer) ==
    IF uid = 0
    THEN [state |-> TRUE, err |-> NoErr, pk |-> << >>]
    ELSE LET call == [subject |-> subject, action |-> actionID, answer |-> answer]
         IN IF answer = "failed"
            THEN [state |-> FALSE, err |-> ErrAuthError, pk |-> <<call>>]
            ELSE [state |-> TRUE, err |-> NoErr, pk |-> <<call>>]

\* A variant of checkDbusAuth that takes a failed call for a grant
checkDbusAuthFailsOpen(uid, subject, actionID, answer) ==
    IF uid = 0
    THEN [state |-> TRUE, err |-> NoErr, pk |-> << >>]
    ELSE LET call == [subject |-> subject, action |-> actionID, answer |-> answer]
         IN IF answer = "denied"
            THEN [state |-> FALSE, err |-> ErrAccessDenied, pk |-> <<call>>]
            ELSE [state |-> TRUE, err |-> NoErr, pk |-> <<call>>]

checkDbusAuth(uid, subject, actionID, answer) ==
    IF uid = 0
    THEN [state |-> TRUE, err |-> NoErr, pk |-> << >>]
    ELSE LET call == [subject |-> subject, action |-> actionID, answer |-> answer]
         IN IF answer = "failed"
            THEN [state |-> FALSE, err |-> ErrAuthError, pk |-> <<call>>]
            ELSE IF answer # "authorized"
            THEN [state |-> FALSE, err |-> ErrAccessDenied, pk |-> <<call>>]
            ELSE [state |-> TRUE, err |-> NoErr, pk |-> <<call>>]

\* dbus.go 325, 365: the flag a check tests first
PreAuthorizedOp(op) ==
    IF op = "IsReadAuthorized" THEN ReadAllowed ELSE WriteAllowed

\* IsLocal: any failed logind lookup gives false, else the negated Remote property
IsLocal(lookupOk) == lookupOk /\ ~sessionRemote

\* Whether a logind lookup succeeds; for a remote session IsLocal is false
\* either way, so one case stands for both
Lookups == IF sessionRemote THEN {TRUE} ELSE {TRUE, FALSE}

\* What a call did: its argument (the peer of a registration, the permission
\* override of a write check), its result, the CheckAuthorization calls it
\* made, the results of its IsLocal() calls, the recorded peer before and
\* after it, and the session it ran under.
Outcome(op, arg, granted, err, pk, lookups) ==
    [op |-> op, arg |-> arg, granted |-> granted, err |-> err, pk |-> pk,
     lookups |-> lookups, before |-> sender, after |-> sender',
     remote |-> sessionRemote]

Done(outcome) ==
    /\ last' = outcome
    /\ afterDeauth' = (last.op = "Deauthorize")

\* AuthRead, exposed on the bus: only a daemon that ran SetupDBus exports it
AuthRead(peer, answer) ==
    /\ ~noauth
    /\ LET r == checkDbusAuth(euid, peer, DBusName \o ".AuthRead", answer)
       IN /\ sender' = IF r.err = NoErr THEN peer ELSE sender
          /\ Done(Outcome("AuthRead", peer, r.state, r.err, r.pk, << >>))
    /\ UNCHANGED <<noauth, euid, ReadAllowed, WriteAllowed, sessionRemote>>
    /\ UNCHANGED <<remoteVars, stepVars, sideVars>>

AuthWrite(peer, answer) ==
    /\ ~noauth
    /\ LET r == checkDbusAuth(euid, peer, DBusName \o ".AuthWrite", answer)
       IN /\ sender' = IF r.err = NoErr THEN peer ELSE sender
          /\ Done(Outcome("AuthWrite", peer, r.state, r.err, r.pk, << >>))
    /\ UNCHANGED <<noauth, euid, ReadAllowed, WriteAllowed, sessionRemote>>
    /\ UNCHANGED <<remoteVars, stepVars, sideVars>>

\* A variant of AuthRegister that keeps a peer already recorded
AuthRegisterKeepsFirst(peer) ==
    /\ ~noauth
    /\ sender' = IF sender = "" THEN peer ELSE sender
    /\ Done(Outcome("AuthRegister", peer, TRUE, NoErr, << >>, << >>))
    /\ UNCHANGED <<noauth, euid, ReadAllowed, WriteAllowed, sessionRemote>>
    /\ UNCHANGED <<remoteVars, stepVars, sideVars>>

AuthRegister(peer) ==
    /\ ~noauth
    /\ sender' = peer
    /\ Done(Outcome("AuthRegister", peer, TRUE, NoErr, << >>, << >>))
    /\ UNCHANGED <<noauth, euid, ReadAllowed, WriteAllowed, sessionRemote>>
    /\ UNCHANGED <<remoteVars, stepVars, sideVars>>

\* A variant of Deauthorize that clears the write capability and the peer
DeauthorizeClears ==
    /\ WriteAllowed' = FALSE
    /\ sender' = ""
    /\ Done(Outcome("Deauthorize", "", FALSE, NoErr, << >>, << >>))
    /\ UNCHANGED <<noauth, euid, ReadAllowed, sessionRemote>>
    /\ UNCHANGED <<remoteVars, stepVars, sideVars>>

\* A variant of Deauthorize that fails when no peer is recorded
DeauthorizeNeedsPeer ==
    /\ UNCHANGED <<noauth, euid, ReadAllowed, WriteAllowed, sender, sessionRemote>>
    /\ Done(Outcome("Deauthorize", "", FALSE,
                    IF sender = "" THEN ErrAccessDenied ELSE NoErr, << >>, << >>))
    /\ UNCHANGED <<remoteVars, stepVars, sideVars>>

\* Deauthorize: its body is commented out, it logs and returns nil
Deauthorize ==
    /\ UNCHANGED <<noauth, euid, ReadAllowed, WriteAllowed, sender, sessionRemote>>
    /\ Done(Outcome("Deauthorize", "", FALSE, NoErr, << >>, << >>))
    /\ UNCHANGED <<remoteVars, stepVars, sideVars>>

ErrSelfName == <<"could", "not", "get", "unique", "name", "for", "self:",
                 "dbus", "call", "failed">>
ErrReadExternal == <<"read", "to", "systemd", "must", "authorized", "externally">>
ErrWriteExternal == <<"write", "to", "systemd", "must", "authorized", "externally">>
ErrTimedOut == <<"write", "authorization", "timed", "out:", "context",
                 "deadline", "exceeded">>
ErrReadAuthorization(dbuserr) ==
    <<"couldn't", "get", "read", "authorization:">> \o dbuserr
ErrAuthorization(dbuserr) == <<"authorization", "error:">> \o dbuserr

\* The peer/locality step of both checks (dbus.go 331-340 and 370-378):
\* self-registration, or the locality requirement.  l1 and l2 tell whether
\* the logind lookups of the first and of the second IsLocal() succeed.
Register(l1, l2, ownerOk, external) ==
    LET first == IF sender = "" THEN <<IsLocal(l1)>> ELSE << >>
        second == first \o <<IsLocal(l2)>>
    IN IF sender = "" /\ IsLocal(l1) /\ euid # 0
       THEN IF ownerOk
            THEN [stop |-> FALSE, err |-> NoErr, sender |-> Self,
                  lookups |-> first]
            ELSE [stop |-> TRUE, err |-> ErrSelfName, sender |-> sender,
                  lookups |-> first]
       ELSE IF ~IsLocal(l2)
            THEN [stop |-> TRUE, err |-> external, sender |-> sender,
                  lookups |-> second]
            ELSE [stop |-> FALSE, err |-> NoErr, sender |-> sender,
                  lookups |-> second]

\* IsReadAuthorized past the pre-authorization test (dbus.go 328-359)
ReadCheck(l1, l2, ownerOk, answer, timedOut) ==
    LET reg == Register(l1, l2, ownerOk, ErrReadExternal)
        r == checkDbusAuth(euid, reg.sender, DBusName \o ".AuthRead", answer)
    IN /\ sender' = reg.sender
       /\ IF reg.stop
          THEN Done(Outcome("IsReadAuthorized", "", FALSE, reg.err,
                            << >>, reg.lookups))
          ELSE /\ answer \in PolicyAnswers(reg.sender)
               /\ IF r.err # NoErr
                  THEN Done(Outcome("IsReadAuthorized", "", FALSE,
                                    ErrReadAuthorization(r.err), r.pk,
                                    reg.lookups))
                  ELSE IF timedOut
                  THEN Done(Outcome("IsReadAuthorized", "", FALSE,
                                    ErrTimedOut, r.pk, reg.lookups))
                  ELSE Done(Outcome("IsReadAuthorized", "", r.state,
                                    NoErr, r.pk, reg.lookups))

\* A variant of IsReadAuthorized that does not look at ReadAllowed
IsReadAuthorizedIgnoresFlag(l1, l2, ownerOk, answer, timedOut) ==
    /\ ReadCheck(l1, l2, ownerOk, answer, timedOut)
    /\ UNCHANGED <<noauth, euid, ReadAllowed, WriteAllowed, sessionRemote>>
    /\ UNCHANGED <<remoteVars, stepVars, sideVars>>

IsReadAuthorized(l1, l2, ownerOk, answer, timedOut) ==
    /\ IF ReadAllowed
       THEN /\ UNCHANGED sender
            /\ Done(Outcome("IsReadAuthorized", "", TRUE, NoErr, << >>, << >>))
       ELSE ReadCheck(l1, l2, ownerOk, answer, timedOut)
    /\ UNCHANGED <<noauth, euid, ReadAllowed, WriteAllowed, sessionRemote>>
    /\ UNCHANGED <<remoteVars, stepVars, sideVars>>

IsWriteAuthorized(systemdPermission, l1, l2, ownerOk, answer1, answer2, timedOut) ==
    /\ IF WriteAllowed
       THEN /\ UNCHANGED sender
            /\ Done(Outcome("IsWriteAuthorized", systemdPermission, TRUE, NoErr,
                            << >>, << >>))
       ELSE LET reg == Register(l1, l2, ownerOk, ErrWriteExternal)
                r1 == checkDbusAuth(euid, reg.sender, DBusName \o ".AuthWrite",
                                    answer1)
                perm == IF systemdPermission = "" THEN ManageUnits
                        ELSE systemdPermission
                r2 == checkDbusAuth(euid, reg.sender, perm, answer2)
            IN /\ sender' = reg.sender
               /\ IF reg.stop
                  THEN Done(Outcome("IsWriteAuthorized", systemdPermission, FALSE,
                                    reg.err, << >>, reg.lookups))
                  ELSE /\ answer1 \in PolicyAnswers(reg.sender)
                       /\ answer2 \in PolicyAnswers(reg.sender)
                       /\ IF r1.err = NoErr
                          THEN IF timedOut
                               THEN Done(Outcome("IsWriteAuthorized",
                                                 systemdPermission, FALSE,
                                                 ErrTimedOut, r1.pk, reg.lookups))
                               ELSE Done(Outcome("IsWriteAuthorized",
                                                 systemdPermission, r1.state,
                                                 NoErr, r1.pk, reg.lookups))
                          ELSE IF r2.err # NoErr
                          THEN Done(Outcome("IsWriteAuthorized", systemdPermission,
                                            FALSE, ErrAuthorization(r2.err),
                                            r1.pk \o r2.pk, reg.lookups))
                          ELSE IF timedOut
                          THEN Done(Outcome("IsWriteAuthorized", systemdPermission,
                                            FALSE, ErrTimedOut, r1.pk \o r2.pk,
                                            reg.lookups))
                          ELSE Done(Outcome("IsWriteAuthorized", systemdPermission,
                                            r2.state, NoErr, r1.pk \o r2.pk,
                                            reg.lookups))
    /\ UNCHANGED <<noauth, euid, ReadAllowed, WriteAllowed, sessionRemote>>
    /\ UNCHANGED <<remoteVars, stepVars, sideVars>>

\* The session logind reports as active changes (a login, a seat switch)
SwitchSession ==
    /\ sessionRemote' = ~sessionRemote
    /\ UNCHANGED <<noauth, euid, ReadAllowed, WriteAllowed, sender, last, afterDeauth>>
    /\ UNCHANGED <<remoteVars, stepVars, sideVars>>

----------------------------------------------------------------------------
(* The same two checks step by step, as one goroutine runs them while the  *)
(* bus handlers AuthRead, AuthWrite and AuthRegister run in others.  The   *)
(* AuthKeeper has no lock: every read and write of a.sender is a step of   *)
(* its own.  The clock counts ticks since the context of the call was      *)
(* created (dbus.go 343, 382); Timeout is AuthKeeper.Timeout in ticks.     *)

Timeout == 2
MaxElapsed == Timeout + 1

NoCheck == [pc |-> "idle", op |-> "none", perm |-> "", asked |-> << >>,
            started |-> FALSE, elapsed |-> 0, replaced |-> "",
            state |-> FALSE, granted |-> FALSE, err |-> NoErr]

\* Everything a step of the check leaves alone besides check and a.sender
StepFrame ==
    /\ UNCHANGED <<noauth, euid, ReadAllowed, WriteAllowed, sessionRemote,
                   last, afterDeauth, unit>>
    /\ UNCHANGED <<remoteVars, sideVars>>

\* return granted, err
Return(granted, err) ==
    check' = [check EXCEPT !.pc = "returned", !.granted = granted, !.err = err]

Goto(pc) == check' = [check EXCEPT !.pc = pc]

\* dbus.go 325-331, 365-370: the pre-authorization test, then a.sender == ""
CheckStart(op, systemdPermission) ==
    /\ ~noauth
    /\ check.pc = "idle"
    /\ check' =
          IF PreAuthorizedOp(op)
          THEN [NoCheck EXCEPT !.op = op, !.perm = systemdPermission,
                               !.pc = "returned", !.granted = TRUE]
          ELSE [NoCheck EXCEPT !.op = op, !.perm = systemdPermission,
                               !.pc = IF sender = "" THEN "local1" ELSE "local2"]
    /\ UNCHANGED sender
    /\ StepFrame

\* dbus.go 331, 370: a.IsLocal() && os.Geteuid() != 0
CheckLocal1(lookupOk) ==
    /\ check.pc = "local1"
    /\ Goto(IF IsLocal(lookupOk) /\ euid # 0 THEN "owner" ELSE "local2")
    /\ UNCHANGED sender
    /\ StepFrame

\* dbus.go 332-336, 371-375: GetNameOwner stored into a.sender
CheckOwner(ownerOk) ==
    /\ check.pc = "owner"
    /\ IF ownerOk
       THEN /\ sender' = Self
            /\ check' = [check EXCEPT !.pc = "ask1", !.replaced = sender]
       ELSE /\ UNCHANGED sender
            /\ Return(FALSE, ErrSelfName)
    /\ StepFrame

\* dbus.go 342-344, 377-379: else if !a.IsLocal()
CheckLocal2(lookupOk) ==
    /\ check.pc = "local2"
    /\ IF IsLocal(lookupOk)
       THEN Goto("ask1")
       ELSE Return(FALSE, IF check.op = "IsReadAuthorized" THEN ErrReadExternal
                          ELSE ErrWriteExternal)
    /\ UNCHANGED sender
    /\ StepFrame

\* The action a check asks about first
FirstAction(op) ==
    IF op = "IsReadAuthorized" THEN DBusName \o ".AuthRead"
    ELSE DBusName \o ".AuthWrite"

\* dbus.go 345-349, 382-385: the context is created, a.sender is read and
\* CheckAuthorization is sent; for euid 0 checkDbusAuth returns at once
CheckAsk1 ==
    /\ check.pc = "ask1"
    /\ check' =
          IF euid = 0
          THEN [check EXCEPT !.pc = "select", !.started = TRUE,
                             !.state = checkDbusAuth(euid, sender,
                                          FirstAction(check.op), "failed").state]
          ELSE [check EXCEPT !.pc = "wait1", !.started = TRUE,
                             !.asked = <<[subject |-> sender,
                                          action |-> FirstAction(check.op)]>>]
    /\ UNCHANGED sender
    /\ StepFrame

\* The reply to the first CheckAuthorization arrives (dbus.go 346-347, 386)
CheckAnswer1(answer) ==
    /\ check.pc = "wait1"
    /\ answer \in PolicyAnswers(check.asked[1].subject)
    /\ LET r == checkDbusAuth(euid, check.asked[1].subject,
                              check.asked[1].action, answer)
       IN IF r.err = NoErr
          THEN check' = [check EXCEPT !.pc = "select", !.state = r.state]
          ELSE IF check.op = "IsReadAuthorized"
          THEN Return(FALSE, ErrReadAuthorization(r.err))
          ELSE Goto("ask2")
    /\ UNCHANGED sender
    /\ StepFrame

\* dbus.go 387-391: a.sender is read again for the fallback check
CheckAsk2 ==
    /\ check.pc = "ask2"
    /\ check' = [check EXCEPT
                    !.pc = "wait2",
                    !.asked = Append(@, [subject |-> sender,
                                         action |-> IF check.perm = ""
                                                    THEN ManageUnits
                                                    ELSE check.perm])]
    /\ UNCHANGED sender
    /\ StepFrame

\* The reply to the fallback CheckAuthorization arrives (dbus.go 388-392)
CheckAnswer2(answer) ==
    /\ check.pc = "wait2"
    /\ answer \in PolicyAnswers(check.asked[2].subject)
    /\ LET r == checkDbusAuth(euid, check.asked[2].subject,
                              check.asked[2].action, answer)
       IN IF r.err = NoErr
          THEN check' = [check EXCEPT !.pc = "select", !.state = r.state]
          ELSE Return(FALSE, ErrAuthorization(r.err))
    /\ UNCHANGED sender
    /\ StepFrame

\* dbus.go 354-359, 394-399: select on ctx.Done() with a default case
CheckSelect ==
    /\ check.pc = "select"
    /\ IF check.elapsed >= Timeout
       THEN Return(FALSE, ErrTimedOut)
       ELSE Return(check.state, NoErr)
    /\ UNCHANGED sender
    /\ StepFrame

\* The caller takes the result; the next call can start
CheckReturn ==
    /\ check.pc = "returned"
    /\ check' = NoCheck
    /\ UNCHANGED sender
    /\ StepFrame

\* Time passes while the call waits for the policy engine.  Nothing in the
\* call waits on its context: pkObj.Call (dbus.go 91-92) blocks until the
\* reply arrives, and the engine may be waiting for the user to authenticate.
Tick ==
    /\ check.started
    /\ check.pc \in {"wait1", "wait2"}
    /\ check.elapsed < MaxElapsed
    /\ check' = [check EXCEPT !.elapsed = @ + 1]
    /\ UNCHANGED sender
    /\ StepFrame

----------------------------------------------------------------------------
(* ChangeUnitState: src/internal/pkg/systemd/units.go.  The write check it *)
(* calls is taken by its result; the systemd calls it issues are listed.   *)

MaxTimeOut == 60
TimeOuts == {MaxTimeOut, MaxTimeOut + 1}
Actions == {"start", "stop", "stop_kill", "restart_force", "restart", "reload",
            "enable", "enable_force", "disable", "dance"}
Modes == {"", "replace", "bogus"}
ValidRestartModes ==
    {"replace", "fail", "isolate", "ignore-dependencies", "ignore-requirements"}
Params == [Action : Actions, Mode : Modes, TimeOut : TimeOuts]

\* What the write check can return to ChangeUnitState
CheckResults ==
    {[allowed |-> TRUE, err |-> NoErr],
     [allowed |-> FALSE, err |-> NoErr],
     [allowed |-> FALSE, err |-> ErrAuthorization(ErrAccessDenied)],
     [allowed |-> FALSE, err |-> ErrTimedOut]}

ErrCanceled == <<"calling", "method", "was", "canceled", "by", "user">>
ErrMaxTimeOut == <<"not", "waiting", "longer", "than", "MaxTimeOut(60)">>
ErrInvalidMode == <<"invalid", "mode", "for", "start:">>
ErrInvalidAction == <<"invalid", "action:">>
ErrSystemd == <<"systemd", "call", "failed">>

NoUnit == [pc |-> "idle", params |-> [Action |-> "", Mode |-> "", TimeOut |-> 0],
           permission |-> "", allowed |-> FALSE, err |-> NoErr,
           calls |-> << >>, deauthorized |-> 0, result |-> NoErr]

UnitFrame ==
    /\ UNCHANGED localVars
    /\ UNCHANGED <<remoteVars, sideVars>>
    /\ UNCHANGED check

\* units.go 380-387: the permission, the write check, defer Deauthorize
ChangeUnitState(params, checked) ==
    /\ unit.pc = "idle"
    /\ unit' = [NoUnit EXCEPT
                   !.pc = "checked",
                   !.params = params,
                   !.permission = IF params.Action \in {"enable", "disable"}
                                  THEN ManageUnitFiles ELSE ManageUnits,
                   !.allowed = checked.allowed,
                   !.err = checked.err]
    /\ UnitFrame

\* The systemd call of an action (units.go 399-462)
SystemdCall(action) ==
    CASE action = "start" -> "StartUnit"
      [] action = "stop" -> "StopUnit"
      [] action = "stop_kill" -> "KillUnit"
      [] action = "restart_force" -> "RestartUnit"
      [] action \in {"restart", "reload"} -> "ReloadOrRestartUnit"
      [] action \in {"enable", "enable_force"} -> "EnableUnitFiles"
      [] action = "disable" -> "DisableUnitFiles"

Finish(result) == unit' = [unit EXCEPT !.pc = "returning", !.result = result]

\* units.go 388-469: the tests on the check's result and on the parameters,
\* then the systemd call with its result
UnitDispatch(systemdOk) ==
    /\ unit.pc = "checked"
    /\ IF unit.err # NoErr THEN Finish(unit.err)
       ELSE IF ~unit.allowed THEN Finish(ErrCanceled)
       ELSE IF unit.params.TimeOut > MaxTimeOut THEN Finish(ErrMaxTimeOut)
       ELSE IF unit.params.Action = "dance" THEN Finish(ErrInvalidAction)
       ELSE IF /\ unit.params.Action = "start"
               /\ unit.params.Mode # ""
               /\ unit.params.Mode \notin ValidRestartModes
       THEN Finish(ErrInvalidMode)
       ELSE LET calls == Append(unit.calls, SystemdCall(unit.params.Action))
            IN IF unit.params.Action \in {"enable", "enable_force", "disable"}
               THEN unit' = [unit EXCEPT
                                !.calls = calls, !.pc = "returning",
                                !.result = IF systemdOk THEN NoErr ELSE ErrSystemd]
               ELSE IF systemdOk \/ unit.params.Action = "stop_kill"
               THEN unit' = [unit EXCEPT !.calls = calls, !.pc = "waiting"]
               ELSE unit' = [unit EXCEPT !.calls = calls, !.pc = "returning",
                                         !.result = ErrSystemd]
    /\ UnitFrame

\* units.go 471-473: return conn.CheckForRestartReloadRunning(...)
CheckForRestartReloadRunning(ok) ==
    /\ unit.pc = "waiting"
    /\ Finish(IF ok THEN NoErr ELSE ErrSystemd)
    /\ UnitFrame

\* A variant of UnitReturn that skips Deauthorize when the call failed
UnitReturnSkipsOnError ==
    /\ unit.pc = "returning"
    /\ unit' = [unit EXCEPT !.pc = "returned",
                            !.deauthorized = IF unit.result = NoErr
                                             THEN @ + 1 ELSE @]
    /\ UnitFrame

\* The function returns: the deferred conn.auth.Deauthorize() runs
UnitReturn ==
    /\ unit.pc = "returning"
    /\ unit' = [unit EXCEPT !.pc = "returned", !.deauthorized = @ + 1]
    /\ UnitFrame

\* The caller takes the result; the next call can start
UnitDone ==
    /\ unit.pc = "returned"
    /\ unit' = NoUnit
    /\ UnitFrame

StepIdle == check = NoCheck /\ unit = NoUnit

----------------------------------------------------------------------------
(* The OAuth2 verifier: src/remoteauth/oauth2.go.                          *)
(*                                                                         *)
(* A token is its header algorithm, the outcome of the key lookup and      *)
(* signature verification, and its payload: a map from the claim names it  *)
(* carries to their values.  A string is a sequence of atoms, the atom " " *)
(* being the space.                                                        *)

Audience == "systemd-mcp-server"
ErrInvalidToken == <<"invalid", "token">>      \* auth.ErrInvalidToken
WrapInvalidToken(msg) == <<"invalid", "token:">> \o msg   \* "%v: %w"

Algs == {"RS256", "HS256"}
Signatures == {"valid", "invalid", "nokey"}

\* A claim is absent (<< >>) or present with one value (<<v>>)
AudClaims == {<< >>, <<{Audience}>>, <<{"other"}>>, <<{"other", Audience}>>}
ExpClaims == {<< >>, <<"past">>, <<"future">>}
ScopeClaims ==
    {<< >>,
     <<[string |-> FALSE, s |-> << >>]>>,
     <<[string |-> TRUE, s |-> <<"mcp:read">>]>>,
     <<[string |-> TRUE, s |-> <<"mcp:read", " ", "mcp:write">>]>>}

Payload(aud, exp, scope) ==
    LET keys == (IF aud # << >> THEN {"aud"} ELSE {})
                \cup (IF exp # << >> THEN {"exp"} ELSE {})
                \cup (IF scope # << >> THEN {"scope"} ELSE {})
    IN [k \in keys |-> CASE k = "aud" -> aud[1]
                         [] k = "exp" -> exp[1]
                         [] k = "scope" -> scope[1]]

Tokens ==
    {[alg |-> a, sig |-> g, payload |-> Payload(aud, exp, scope)] :
        a \in Algs, g \in Signatures,
        aud \in AudClaims, exp \in ExpClaims, scope \in ScopeClaims}

\* json.Unmarshal into an existing map: present keys are set, the other
\* entries of the map are kept
Unmarshal(into, payload) ==
    [k \in (DOMAIN into) \cup (DOMAIN payload) |->
        IF k \in DOMAIN payload THEN payload[k] ELSE into[k]]

\* strings.Split(s, " ")
RECURSIVE Split(_)
Split(s) ==
    IF \A i \in DOMAIN s : s[i] # " "
    THEN <<s>>
    ELSE LET i == CHOOSE j \in DOMAIN s :
                      s[j] = " " /\ \A k \in 1..(j - 1) : s[k] # " "
         IN <<SubSeq(s, 1, i - 1)>> \o Split(SubSeq(s, i + 1, Len(s)))

\* slices.Contains
Contains(list, x) == \E i \in DOMAIN list : list[i] = x

\* An error value: its message and the sentinel errors errors.Is finds in it
Error(msg, is) == [msg |-> msg, is |-> is]
NilError == Error(NoErr, {})

\* The claims validation of jwt.ParseWithClaims (exp if present, aud required
\* to list the expected audience): the errors it joins
ClaimErrors(c) ==
    (IF "exp" \in DOMAIN c /\ c["exp"] = "past"
     THEN <<Error(<<"token", "is", "expired">>, {"jwt.ErrTokenExpired"})>>
     ELSE << >>)
    \o (IF "aud" \notin DOMAIN c
        THEN <<Error(<<"token", "is", "missing", "required", "claim:", "aud",
                       "claim", "is", "required">>,
                     {"jwt.ErrTokenRequiredClaimMissing"})>>
        ELSE IF Audience \notin c["aud"]
        THEN <<Error(<<"token", "has", "invalid", "audience">>,
                     {"jwt.ErrTokenInvalidAudience"})>>
        ELSE << >>)

RECURSIVE Join(_)
Join(errs) ==
    IF Len(errs) = 1 THEN errs[1]
    ELSE LET rest == Join(Tail(errs))
         IN Error(errs[1].msg \o <<",">> \o rest.msg, errs[1].is \cup rest.is)

\* jwt.ParseWithClaims on the decoded claims c with WithValidMethods(RS256)
\* and WithAudience(Audience): the error, or NilError for a valid token
ParseWithClaims(token, c) ==
    IF token.alg # "RS256"
    THEN Error(<<"token", "signature", "is", "invalid:", "signing", "method",
                 token.alg, "is", "invalid">>, {"jwt.ErrTokenSignatureInvalid"})
    ELSE IF token.sig = "nokey"
    THEN Error(<<"token", "is", "unverifiable:", "error", "while", "executing",
                 "keyfunc">>, {"jwt.ErrTokenUnverifiable"})
    ELSE IF token.sig # "valid"
    THEN Error(<<"token", "signature", "is", "invalid:", "crypto/rsa:",
                 "verification", "error">>, {"jwt.ErrTokenSignatureInvalid"})
    ELSE IF ClaimErrors(c) # << >>
    THEN LET e == Join(ClaimErrors(c))
         IN Error(<<"token", "has", "invalid", "claims:">> \o e.msg,
                  e.is \cup {"jwt.ErrTokenInvalidClaims"})
    ELSE NilError

NoTokenInfo == [present |-> FALSE, Scopes |-> << >>, Expiration |-> "",
                roles |-> << >>]

\* What VerifyJWT returns, or that it panics
Returned(token, info, err) ==
    [token |-> token, kind |-> IF err = NilError THEN "info" ELSE "error",
     info |-> info, err |-> err]
Panicked(token) ==
    [token |-> token, kind |-> "panic", info |-> NoTokenInfo, err |-> NilError]

\* VerifyJWT: the token is decoded into the verifier's claims map, verified
\* and validated; then the expiration and the scope are read from the map
VerifyJWT(token) ==
    LET c == Unmarshal(claims, token.payload)
        err == ParseWithClaims(token, c)
    IN /\ claims' = c
       /\ verified' =
            IF err # NilError
            THEN Returned(token, NoTokenInfo,
                          Error(WrapInvalidToken(err.msg), err.is))
            ELSE IF "scope" \notin DOMAIN c \/ ~c["scope"].string
            THEN Returned(token, NoTokenInfo,
                          Error(<<"unable", "to", "type", "assert", "scopes:">>
                                    \o ErrInvalidToken,
                                {"auth.ErrInvalidToken"}))
            ELSE IF "exp" \notin DOMAIN c
            THEN Panicked(token)
            ELSE Returned(token,
                          [present |-> TRUE, Scopes |-> Split(c["scope"].s),
                           Expiration |-> c["exp"], roles |-> << >>],
                          NilError)
       /\ UNCHANGED <<authz, jwks>>
       /\ UNCHANGED <<localVars, stepVars, sideVars>>

\* The token info a request context can carry: none, or scopes with the
\* "roles" entry of Extra absent (<< >>) or a list of role names
ScopeLists == {<< <<"mcp:read">> >>, << <<"mcp:write">> >>,
               << <<"mcp:read">>, <<"mcp:write">> >>, << << >> >>}
RoleLists == {<< >>, << {} >>, << {"mcp-admin"} >>, << {"mcp-user"} >>}
TokenInfos ==
    {NoTokenInfo} \cup
    {[present |-> TRUE, Scopes |-> sc, Expiration |-> "future", roles |-> r] :
        sc \in ScopeLists, r \in RoleLists}

ErrNoTokenInfo == <<"no", "token", "info", "in", "context">>
ErrNoWriteScope == <<"mcp:write", "not", "in", "scopes:">>
ErrNoReadScope == <<"mcp:read", "not", "in", "scopes:">>

Oauth2Outcome(op, ti, granted, err) ==
    [op |-> op, ti |-> ti, granted |-> granted, err |-> err]

Oauth2IsWriteAuthorized(ti) ==
    /\ authz' =
         IF ~ti.present
         THEN Oauth2Outcome("IsWriteAuthorized", ti, FALSE, ErrNoTokenInfo)
         ELSE IF Contains(ti.Scopes, <<"mcp:write">>)
         THEN Oauth2Outcome("IsWriteAuthorized", ti, TRUE, NoErr)
         ELSE Oauth2Outcome("IsWriteAuthorized", ti, FALSE, ErrNoWriteScope)
    /\ UNCHANGED <<claims, verified, jwks>>
    /\ UNCHANGED <<localVars, stepVars, sideVars>>

Oauth2IsReadAuthorizedAny(ti) ==
    /\ authz' =
         IF ~ti.present
         THEN Oauth2Outcome("IsReadAuthorized", ti, FALSE, ErrNoTokenInfo)
         ELSE Oauth2Outcome("IsReadAuthorized", ti, TRUE, NoErr)
    /\ UNCHANGED <<claims, verified, jwks>>
    /\ UNCHANGED <<localVars, stepVars, sideVars>>

Oauth2IsReadAuthorized(ti) ==
    /\ authz' =
         IF ~ti.present
         THEN Oauth2Outcome("IsReadAuthorized", ti, FALSE, ErrNoTokenInfo)
         ELSE IF Contains(ti.Scopes, <<"mcp:read">>)
         THEN Oauth2Outcome("IsReadAuthorized", ti, TRUE, NoErr)
         ELSE Oauth2Outcome("IsReadAuthorized", ti, FALSE, ErrNoReadScope)
    /\ UNCHANGED <<claims, verified, jwks>>
    /\ UNCHANGED <<localVars, stepVars, sideVars>>

----------------------------------------------------------------------------
(* Key-set discovery: GetJwksURI of src/remoteauth/oauth2.go.              *)

StatusOK == 200
JwksLocation == <<"https://issuer/certs">>

\* The answer to GET {issuer}/.well-known/openid-configuration: no answer,
\* or a status and a body that is a JSON object or not
Documents == {<< >>, [issuer |-> <<"https://issuer">>],
              [jwks_uri |-> JwksLocation], [jwks_uri |-> << >>]}
NoResponse == [reachable |-> FALSE, status |-> 0, json |-> FALSE, doc |-> << >>]
Responses ==
    {NoResponse}
    \cup {[reachable |-> TRUE, status |-> st, json |-> FALSE, doc |-> << >>] :
            st \in {StatusOK, 404}}
    \cup {[reachable |-> TRUE, status |-> st, json |-> TRUE, doc |-> d] :
            st \in {StatusOK, 404}, d \in Documents}

ErrGet == <<"Get", "openid-configuration:", "dial", "tcp:", "connection", "refused">>
ErrStatus == <<"failed", "to", "get", "openid-configuration:">>
ErrDecode == <<"invalid", "character">>

\* json decoding into struct{ JwksURI string `json:"jwks_uri"` }
DecodeJwksURI(doc) ==
    IF "jwks_uri" \in DOMAIN doc THEN doc["jwks_uri"] ELSE << >>

JwksOutcome(resp, uri, err) ==
    [called |-> TRUE, resp |-> resp, uri |-> uri, err |-> err]

GetJwksURI(resp) ==
    /\ jwks' =
         IF ~resp.reachable
         THEN JwksOutcome(resp, << >>, ErrGet)
         ELSE IF resp.status # StatusOK
         THEN JwksOutcome(resp, << >>, ErrStatus)
         ELSE IF ~resp.json
         THEN JwksOutcome(resp, << >>, ErrDecode)
         ELSE JwksOutcome(resp, DecodeJwksURI(resp.doc), NoErr)
    /\ UNCHANGED <<claims, verified, authz>>
    /\ UNCHANGED <<localVars, stepVars, sideVars>>


----------------------------------------------------------------------------
(* The session locality detector: getSessionID and AuthKeeper.IsLocal of   *)
(* src/dbus/dbus.go, computed on the answers of the login manager.         *)

SessionIDs == {"1", "2"}
MaxSeats == 2

\* Answers to GetProperty(Seat.ActiveSession): the call's success, whether
\* the variant is a pair whose first element is a string, and that string
Unreadable == [ok |-> FALSE, pair |-> FALSE, id |-> ""]
NoActiveSession == [ok |-> TRUE, pair |-> TRUE, id |-> ""]
ActiveSessions ==
    {Unreadable, NoActiveSession, [ok |-> TRUE, pair |-> FALSE, id |-> ""]}
    \cup {[ok |-> TRUE, pair |-> TRUE, id |-> s] : s \in SessionIDs}

\* Answers to GetProperty(Session.Remote): the call's success, whether the
\* variant holds a boolean, and that boolean
RemoteProperties ==
    {[ok |-> FALSE, bool |-> FALSE, value |-> FALSE],
     [ok |-> TRUE, bool |-> FALSE, value |-> FALSE]}
    \cup {[ok |-> TRUE, bool |-> TRUE, value |-> v] : v \in BOOLEAN}

SeatLists == UNION {[1..n -> ActiveSessions] : n \in 0..MaxSeats}

\* What org.freedesktop.login1 answers: ListSeats, each seat's ActiveSession,
\* the sessions GetSession knows, each session's Remote property
Hosts == [listSeats : BOOLEAN, seats : SeatLists,
          sessions : SUBSET SessionIDs,
          remote : [SessionIDs -> RemoteProperties]]

\* dbus.go 176-197: the loop over the seats from seat i on; a seat whose
\* property is unreadable, not a pair, or names no session is skipped
RECURSIVE ActiveSessionFrom(_, _)
ActiveSessionFrom(seats, i) ==
    IF i > Len(seats)
    THEN [id |-> "", found |-> FALSE, lookups |-> << >>]
    ELSE LET a == seats[i]
             rest == ActiveSessionFrom(seats, i + 1)
         IN IF a.ok /\ a.pair /\ a.id # ""
            THEN [id |-> a.id, found |-> TRUE, lookups |-> <<TRUE>>]
            ELSE [rest EXCEPT !.lookups = <<a.ok>> \o @]

\* getSessionID: the id of the first active session found on any seat
\* (found = FALSE stands for the error return); lookups records, in order,
\* whether each call to the login manager succeeded
getSessionID(host) ==
    IF ~host.listSeats
    THEN [id |-> "", found |-> FALSE, lookups |-> <<FALSE>>]
    ELSE IF Len(host.seats) = 0
    THEN [id |-> "", found |-> FALSE, lookups |-> <<TRUE>>]
    ELSE LET r == ActiveSessionFrom(host.seats, 1)
         IN [r EXCEPT !.lookups = <<TRUE>> \o @]

\* IsLocal without the type test of the Remote property (lines 226-230)
IsLocalOnAssumesBoolean(host) ==
    LET s == getSessionID(host)
    IN IF ~s.found
       THEN [local |-> FALSE, session |-> "", lookups |-> s.lookups]
       ELSE IF s.id \notin host.sessions
       THEN [local |-> FALSE, session |-> s.id,
             lookups |-> s.lookups \o <<FALSE>>]
       ELSE LET r == host.remote[s.id]
            IN IF ~r.ok
               THEN [local |-> FALSE, session |-> s.id,
                     lookups |-> s.lookups \o <<TRUE, FALSE>>]
               ELSE [local |-> ~r.value, session |-> s.id,
                     lookups |-> s.lookups \o <<TRUE, TRUE>>]

\* AuthKeeper.IsLocal on the login manager's answers
IsLocalOn(host) ==
    LET s == getSessionID(host)
    IN IF ~s.found
       THEN [local |-> FALSE, session |-> "", lookups |-> s.lookups]
       ELSE IF s.id \notin host.sessions
       THEN [local |-> FALSE, session |-> s.id,
             lookups |-> s.lookups \o <<FALSE>>]
       ELSE LET r == host.remote[s.id]
            IN IF ~r.ok
               THEN [local |-> FALSE, session |-> s.id,
                     lookups |-> s.lookups \o <<TRUE, FALSE>>]
               ELSE IF ~r.bool
               THEN [local |-> FALSE, session |-> s.id,
                     lookups |-> s.lookups \o <<TRUE, TRUE>>]
               ELSE [local |-> ~r.value, session |-> s.id,
                     lookups |-> s.lookups \o <<TRUE, TRUE>>]

NoHost == [listSeats |-> FALSE, seats |-> << >>, sessions |-> {},
           remote |-> [s \in SessionIDs |->
                          [ok |-> FALSE, bool |-> FALSE, value |-> FALSE]]]

NoIsLocal == [local |-> FALSE, session |-> "", lookups |-> << >>]

\* login: the login manager's answers, the session the daemon runs in, and
\* the result of the last IsLocal()
NoLogin == [host |-> NoHost, own |-> "", called |-> FALSE, result |-> NoIsLocal]

LoginFrame ==
    /\ UNCHANGED localVars
    /\ UNCHANGED <<remoteVars, stepVars>>
    /\ UNCHANGED <<proc, facade, tool, man, log, jobs>>

\* a.IsLocal()
IsLocalCall ==
    /\ login.own # ""
    /\ login' = [login EXCEPT !.called = TRUE, !.result = IsLocalOn(login.host)]
    /\ LoginFrame

\* Another session becomes active on seat i, or the seat's property changes
SeatChange(i, answer) ==
    /\ login.own # ""
    /\ i \in 1..Len(login.host.seats)
    /\ login' = [login EXCEPT !.host.seats[i] = answer,
                              !.called = FALSE, !.result = NoIsLocal]
    /\ LoginFrame

----------------------------------------------------------------------------
(* Start of the process: main() of src/systemd-mcp.go up to serving, with  *)
(* dbus.IsDBusNameTaken and dbus.SetupDBus.                                *)

\* A boolean option as given: not given, or given as true or as false
Settings == {"unset", "true", "false"}

\* viper.GetBool(key) after AutomaticEnv and BindPFlags: a flag given on the
\* command line wins, then the variable SYSTEMD_MCP_<KEY>, then the flag's
\* default, which is false for every boolean flag of main
GetBool(flag, env) == IF flag # "unset" THEN flag = "true" ELSE env = "true"

\* Owner of the bus name org.opensuse.systemdmcp
Owners == {"none", "other", "self"}

NoKeeper == [Conn |-> FALSE, ReadAllowed |-> FALSE, WriteAllowed |-> FALSE]

\* proc: noauth/noauthEnv are --noauth and SYSTEMD_MCP_NOAUTH; the other
\* options are given by their viper value; busUp and owner are the system
\* bus; exit is the exit code, -1 while running
NoProc == [pc |-> "none", noauth |-> "unset", noauthEnv |-> "unset",
           allowRead |-> FALSE, allowWrite |-> FALSE, register |-> FALSE,
           http |-> FALSE, listTools |-> FALSE,
           busUp |-> FALSE, owner |-> "none",
           keeper |-> NoKeeper, setupFailed |-> FALSE, exit |-> -1]

ProcFrame ==
    /\ UNCHANGED localVars
    /\ UNCHANGED <<remoteVars, stepVars>>
    /\ UNCHANGED <<login, facade, tool, man, log, jobs>>

Exit(code) == proc' = [proc EXCEPT !.pc = "exited", !.exit = code]

\* systemd-mcp.go 81-138: started with --allow-read, --allow-write,
\* --auth-register or --internal-agent, without noauth and without --http,
\* the process looks for a running daemon; finding one it calls the daemon's
\* bus methods (callsOk: they succeed) and exits
MainClient(callsOk) ==
    /\ proc.pc = "start"
    /\ IF /\ (proc.allowRead \/ proc.allowWrite \/ proc.register)
          /\ ~GetBool(proc.noauth, proc.noauthEnv)
          /\ ~proc.http
       THEN IF ~proc.busUp
            THEN Exit(1)
            ELSE IF proc.owner = "other"
            THEN Exit(IF callsOk THEN 0 ELSE 1)
            ELSE proc' = [proc EXCEPT !.pc = "setup"]
       ELSE proc' = [proc EXCEPT !.pc = "setup"]
    /\ ProcFrame

\* main going on after a failed SetupDBus, as it does after a failed
\* systemd.NewSystem or journal.NewLog
MainSetupWarnsOnly ==
    /\ proc.pc = "setup"
    /\ IF ~GetBool(proc.noauth, proc.noauthEnv)
       THEN IF ~proc.busUp \/ proc.owner = "other"
            THEN proc' = [proc EXCEPT !.pc = "tools", !.setupFailed = TRUE]
            ELSE proc' = [proc EXCEPT
                            !.pc = "tools", !.owner = "self",
                            !.keeper = [Conn |-> TRUE,
                                        ReadAllowed |-> proc.allowRead,
                                        WriteAllowed |-> proc.allowWrite]]
       ELSE proc' = [proc EXCEPT
                       !.pc = "tools",
                       !.keeper = [Conn |-> FALSE, ReadAllowed |-> TRUE,
                                   WriteAllowed |-> TRUE]]
    /\ ProcFrame

\* SetupDBus with main's handling of its error and of the flags
\* (systemd-mcp.go 139-154, dbus.go 277-320)
MainSetup ==
    /\ proc.pc = "setup"
    /\ IF ~GetBool(proc.noauth, proc.noauthEnv)
       THEN IF ~proc.busUp \/ proc.owner = "other"
            THEN proc' = [proc EXCEPT !.pc = "exited", !.exit = 1,
                                      !.setupFailed = TRUE]
            ELSE proc' = [proc EXCEPT
                            !.pc = "tools", !.owner = "self",
                            !.keeper = [Conn |-> TRUE,
                                        ReadAllowed |-> proc.allowRead,
                                        WriteAllowed |-> proc.allowWrite]]
       ELSE proc' = [proc EXCEPT
                       !.pc = "tools",
                       !.keeper = [Conn |-> FALSE, ReadAllowed |-> TRUE,
                                   WriteAllowed |-> TRUE]]
    /\ ProcFrame

\* systemd-mcp.go 156-292: the tools are built; --list-tools prints them
\* and exits, otherwise they are registered and the server runs
MainServe ==
    /\ proc.pc = "tools"
    /\ IF proc.listTools THEN Exit(0)
       ELSE proc' = [proc EXCEPT !.pc = "serving"]
    /\ ProcFrame

\* The system bus stops or starts, another daemon takes or releases the
\* name, while this process has not requested it
BusChange(up, owner) ==
    /\ proc.pc \in {"start", "setup"}
    /\ owner \in {"none", "other"}
    /\ <<up, owner>> # <<proc.busUp, proc.owner>>
    /\ proc' = [proc EXCEPT !.busUp = up, !.owner = owner]
    /\ ProcFrame

----------------------------------------------------------------------------
(* The authorization facade, package authkeeper.  Its source is not part   *)
(* of the tree; it is modelled from the specification (one of the modes    *)
(* Disabled, Local, Remote is selected at start; the facade offers          *)
(* IsReadAuthorized, IsWriteAuthorized and Deauthorize whatever the mode)   *)
(* and from its tests in src/authkeeper and src/unnamed/part_011.           *)

\* AuthMode values in the order of their numbers: noauth is 0, polkit is 2
AuthModes == <<"noauth", "oauth2", "polkit">>
AuthMode(name) == CHOOSE n \in 0..(Len(AuthModes) - 1) : AuthModes[n + 1] = name

\* facade: which of the fields Dbus and Oauth2 are set, how the value was
\* made, the answer of the last Mode() (asked), the last answer of a check
\* in mode noauth (checked)
NoFacade == [made |-> "none", Dbus |-> FALSE, Oauth2 |-> FALSE,
             asked |-> FALSE, mode |-> 0, checked |-> "none"]

FacadeFrame ==
    /\ UNCHANGED localVars
    /\ UNCHANGED <<remoteVars, stepVars>>
    /\ UNCHANGED <<login, proc, tool, man, log, jobs>>

\* Mode(): Local when only the bus backend is set, Remote when only the
\* token backend is set, Disabled otherwise
ModeFallsBackToPolkit(f) ==
    IF f.Dbus THEN "polkit"
    ELSE IF f.Oauth2 THEN "oauth2"
    ELSE "noauth"

Mode(f) ==
    IF f.Dbus /\ ~f.Oauth2 THEN "polkit"
    ELSE IF f.Oauth2 /\ ~f.Dbus THEN "oauth2"
    ELSE "noauth"

NewNoAuth ==
    /\ facade.made = "none"
    /\ facade' = [NoFacade EXCEPT !.made = "NewNoAuth"]
    /\ FacadeFrame

\* NewPolkitAuth(dbusName, dbusPath); ok: the bus setup succeeds
NewPolkitAuth(ok) ==
    /\ facade.made = "none"
    /\ facade' = IF ok THEN [NoFacade EXCEPT !.made = "NewPolkitAuth",
                                             !.Dbus = TRUE]
                 ELSE [NoFacade EXCEPT !.made = "failed"]
    /\ FacadeFrame

\* The constructor of the facade for token verification
NewOauth2Auth ==
    /\ facade.made = "none"
    /\ facade' = [NoFacade EXCEPT !.made = "NewOauth2Auth", !.Oauth2 = TRUE]
    /\ FacadeFrame

\* &authkeeper.AuthKeeper{Dbus: ..., Oauth2: ...}
FacadeLiteral(d, o) ==
    /\ facade.made = "none"
    /\ facade' = [NoFacade EXCEPT !.made = "literal", !.Dbus = d, !.Oauth2 = o]
    /\ FacadeFrame

Built == facade.made \notin {"none", "failed"}

\* auth.Mode()
FacadeMode ==
    /\ Built
    /\ facade' = [facade EXCEPT !.asked = TRUE, !.mode = AuthMode(Mode(facade))]
    /\ FacadeFrame

\* auth.IsReadAuthorized(ctx): granted in mode noauth, else the check of
\* the backend of the mode
FacadeIsReadAuthorized ==
    /\ Built
    /\ CASE Mode(facade) = "noauth" ->
              /\ facade' = [facade EXCEPT !.checked = "read"]
              /\ FacadeFrame
         [] Mode(facade) = "polkit" ->
              \E l1 \in Lookups, l2 \in Lookups, ownerOk \in BOOLEAN,
                 a \in {"authorized", "denied", "failed"}, t \in BOOLEAN :
                 IsReadAuthorized(l1, l2, ownerOk, a, t)
         [] Mode(facade) = "oauth2" ->
              \E ti \in TokenInfos : Oauth2IsReadAuthorized(ti)

\* auth.IsWriteAuthorized(ctx, permission)
FacadeIsWriteAuthorized ==
    /\ Built
    /\ CASE Mode(facade) = "noauth" ->
              /\ facade' = [facade EXCEPT !.checked = "write"]
              /\ FacadeFrame
         [] Mode(facade) = "polkit" ->
              \E perm \in Permissions, l1 \in Lookups, l2 \in Lookups,
                 ownerOk \in BOOLEAN,
                 a1 \in {"authorized", "denied", "failed"},
                 a2 \in {"authorized", "denied", "failed"}, t \in BOOLEAN :
                 IsWriteAuthorized(perm, l1, l2, ownerOk, a1, a2, t)
         [] Mode(facade) = "oauth2" ->
              \E ti \in TokenInfos : Oauth2IsWriteAuthorized(ti)

----------------------------------------------------------------------------
(* The tool handlers main registers (src/systemd-mcp.go 165-281), each     *)
(* reduced to its authorization check and its work.                        *)

AllTools == {"list_units", "change_unit_state", "check_restart_reload",
             "list_log", "get_man_page"}

\* The check each handler starts with: Connection.ListUnits and
\* HostLog.ListLog the read check, Connection.ChangeUnitState and
\* Connection.CheckForRestartReloadRunning the write check, man.GetManPage
\* none
ToolChecks ==
    [name \in AllTools |->
        CASE name \in {"list_units", "list_log"} -> "read"
          [] name \in {"change_unit_state", "check_restart_reload"} -> "write"
          [] name = "get_man_page" -> "none"]

\* The tools of the server: the systemd tools when NewSystem succeeded, the
\* journal tool when NewLog succeeded, the man page tool always; of these,
\* the ones --enabled-tools names
RegisteredTools(systemOk, logOk, enabled) ==
    ((IF systemOk
      THEN {"list_units", "change_unit_state", "check_restart_reload"}
      ELSE {})
     \cup (IF logOk THEN {"list_log"} ELSE {})
     \cup {"get_man_page"}) \cap enabled

NoToolCheck == [made |-> "none", allowed |-> FALSE, err |-> NoErr]

NoTool == [registered |-> {}, pc |-> "idle", name |-> "",
           check |-> NoToolCheck, worked |-> FALSE, err |-> NoErr]

ToolFrame ==
    /\ UNCHANGED localVars
    /\ UNCHANGED <<remoteVars, stepVars>>
    /\ UNCHANGED <<login, proc, facade, man, log, jobs>>

\* The server dispatches a call to the handler registered under the name
ToolCall(name) ==
    /\ tool.pc = "idle"
    /\ name \in tool.registered
    /\ tool' = [tool EXCEPT
                  !.name = name,
                  !.pc = IF ToolChecks[name] = "none" THEN "work" ELSE "check"]
    /\ ToolFrame

\* allowed, err := auth.Is...Authorized(); if err != nil return err;
\* if !allowed return "calling method was canceled by user"
ToolCheck(result) ==
    /\ tool.pc = "check"
    /\ tool' = [tool EXCEPT
                  !.check = [made |-> ToolChecks[tool.name],
                             allowed |-> result.allowed, err |-> result.err],
                  !.pc = IF result.err = NoErr /\ result.allowed
                         THEN "work" ELSE "return",
                  !.err = IF result.err # NoErr THEN result.err
                          ELSE IF ~result.allowed THEN ErrCanceled
                          ELSE NoErr]
    /\ ToolFrame

\* The body of the handler past the check
ToolWork ==
    /\ tool.pc = "work"
    /\ tool' = [tool EXCEPT !.worked = TRUE, !.pc = "return"]
    /\ ToolFrame

\* The result goes to the client; the next call can start
ToolReturn ==
    /\ tool.pc = "return"
    /\ tool' = [NoTool EXCEPT !.registered = tool.registered]
    /\ ToolFrame

----------------------------------------------------------------------------
(* parseAndFilterManPage of src/internal/pkg/man/man.go.  A string is a    *)
(* sequence of characters, a page the sequence of its lines as             *)
(* strings.Split(cleanOutput, "\n") gives them (never empty).              *)

\* Go's int, scaled down to IntBits bits, two's complement
IntBits == 16
MaxInt == 2^(IntBits - 1) - 1
WrapInt(n) == ((n + 2^(IntBits - 1)) % 2^IntBits) - 2^(IntBits - 1)

DefaultLimit == 2000
MaxLines == 3

Whitespace == {" ", "\t"}

ManLines == {<<"N">>, <<"n", " ">>, <<"O">>, <<" ", "x">>, <<"\t", "N">>, << >>}
ManPages == UNION {[1..n -> ManLines] : n \in 1..MaxLines}
ChapterFilters == {<< >>, << <<"n">> >>, << <<"O">>, <<"Q">> >>}
Offsets == {-1, 0, 1, 2, MaxLines + 1}
Limits == {-1, 0, 1, 2, MaxInt}

\* strings.ToUpper
ToUpperChar(c) ==
    CASE c = "n" -> "N" [] c = "o" -> "O" [] c = "x" -> "X" [] c = "q" -> "Q"
      [] OTHER -> c
ToUpper(s) == [i \in 1..Len(s) |-> ToUpperChar(s[i])]

\* strings.TrimSpace
RECURSIVE TrimLeft(_)
TrimLeft(s) ==
    IF s # << >> /\ Head(s) \in Whitespace THEN TrimLeft(Tail(s)) ELSE s
RECURSIVE TrimRight(_)
TrimRight(s) ==
    IF s # << >> /\ s[Len(s)] \in Whitespace
    THEN TrimRight(SubSeq(s, 1, Len(s) - 1)) ELSE s
TrimSpace(s) == TrimRight(TrimLeft(s))

\* strings.Join(lines, "\n")
RECURSIVE JoinLines(_)
JoinLines(lines) ==
    IF lines = << >> THEN << >>
    ELSE IF Len(lines) = 1 THEN lines[1]
    ELSE lines[1] \o <<"\n">> \o JoinLines(Tail(lines))

\* man.go 62: a header is a non-empty line that starts in column 0
IsHeader(line) == Len(line) > 0 /\ line[1] \notin Whitespace

\* man.go 59-77: the chapters, each with its header line and the lines up
\* to the next header; lines before the first header are dropped
RECURSIVE ParseChapters(_, _, _)
ParseChapters(lines, i, chapters) ==
    IF i > Len(lines) THEN chapters
    ELSE IF IsHeader(lines[i])
    THEN ParseChapters(lines, i + 1,
             Append(chapters, [name |-> TrimSpace(lines[i]),
                               lines |-> <<lines[i]>>]))
    ELSE IF chapters # << >>
    THEN ParseChapters(lines, i + 1,
             [chapters EXCEPT ![Len(chapters)].lines = Append(@, lines[i])])
    ELSE ParseChapters(lines, i + 1, chapters)

\* The lines of the chapters whose upper-cased name is in the set wanted
RECURSIVE ChapterLines(_, _)
ChapterLines(chapters, wanted) ==
    IF chapters = << >> THEN << >>
    ELSE (IF ToUpper(Head(chapters).name) \in wanted
          THEN Head(chapters).lines ELSE << >>)
         \o ChapterLines(Tail(chapters), wanted)

\* man.go 80-103
FilterChapters(lines, chapters, requested) ==
    IF Len(requested) > 0
    THEN ChapterLines(chapters,
                      {ToUpper(requested[i]) : i \in 1..Len(requested)})
    ELSE IF Len(chapters) > 0
    THEN ChapterLines(chapters,
                      {ToUpper(chapters[i].name) : i \in 1..Len(chapters)})
    ELSE lines

ManPageResult(content, chapterNames, totalLines) ==
    [kind |-> "result", Content |-> content, Chapters |-> chapterNames,
     TotalLines |-> totalLines]

\* A slice expression out of range: the function does not return
ManPanic == [kind |-> "panic", Content |-> << >>, Chapters |-> << >>,
             TotalLines |-> 0]

\* parseAndFilterManPage(cleanOutput, params), cleanOutput given by its lines
parseAndFilterManPage(lines, params) ==
    LET chapters == ParseChapters(lines, 1, << >>)
        chapterNames == [i \in 1..Len(chapters) |-> chapters[i].name]
        filteredLines == FilterChapters(lines, chapters, params.Chapters)
        totalLines == Len(filteredLines)
        limit == IF params.Limit <= 0 THEN DefaultLimit ELSE params.Limit
        sum == WrapInt(params.Offset + limit)
        end == IF sum > totalLines THEN totalLines ELSE sum
    IN IF params.Offset < totalLines
       THEN IF params.Offset < 0 \/ params.Offset > end
            THEN ManPanic
            ELSE ManPageResult(
                     JoinLines(SubSeq(filteredLines, params.Offset + 1, end)),
                     chapterNames, totalLines)
       ELSE ManPageResult(<< >>, chapterNames, totalLines)

NoMan == [called |-> FALSE, lines |-> << >>,
          params |-> [Chapters |-> << >>, Offset |-> 0, Limit |-> 0],
          result |-> ManPageResult(<< >>, << >>, 0)]

ParseAndFilter ==
    /\ ~man.called
    /\ man.lines # << >>
    /\ man' = [man EXCEPT !.called = TRUE,
                          !.result = parseAndFilterManPage(man.lines, man.params)]
    /\ UNCHANGED localVars
    /\ UNCHANGED <<remoteVars, stepVars>>
    /\ UNCHANGED <<login, proc, facade, tool, log, jobs>>

----------------------------------------------------------------------------
(* The journal tool: HostLog.ListLogTimeout and HostLog.ListLog of package *)
(* journal (src/unnamed/part_008), on the one sdjournal handle of the      *)
(* HostLog.  ListLog runs in the goroutine ListLogTimeout starts.          *)

MaxLogCalls == 2
LogCalls == 1..MaxLogCalls
LogUnits == {"a.service", "b.service"}

\* The journal handle: the matches added since the last FlushMatches and
\* the call that positioned the cursor last (0: none)
NoJournal == [matches |-> {}, cursor |-> 0]

\* One ListLogTimeout call: pc of the caller, pc of its ListLog goroutine
\* (worker), the result channel, what ListLog read, what the caller got
NoLogCall == [pc |-> "idle", unit |-> "", worker |-> "none", chan |-> << >>,
              result |-> "none", seen |-> NoJournal, returned |-> "none"]

NoLog == [open |-> FALSE, journal |-> NoJournal,
          calls |-> [i \in LogCalls |-> NoLogCall]]

LogFrame ==
    /\ UNCHANGED localVars
    /\ UNCHANGED <<remoteVars, stepVars>>
    /\ UNCHANGED <<login, proc, facade, tool, man, jobs>>

\* part_008 93-109: the context with its one second, the channel of
\* capacity 1, the goroutine.  The calls are made one after the other.
ListLogTimeout(i, name) ==
    /\ log.open
    /\ log.calls[i].pc = "idle"
    /\ \A j \in 1..(i - 1) : log.calls[j].pc = "returned"
    /\ log' = [log EXCEPT !.calls[i] =
                  [NoLogCall EXCEPT !.pc = "select", !.unit = name,
                                    !.worker = "check"]]
    /\ LogFrame

\* part_008 111-114: case <-timeoutCtx.Done()
LogTimeout(i) ==
    /\ log.calls[i].pc = "select"
    /\ log' = [log EXCEPT !.calls[i].pc = "returned",
                          !.calls[i].returned = "timeout"]
    /\ LogFrame

\* part_008 115-117: case result := <-resultChan
LogReceive(i) ==
    /\ log.calls[i].pc = "select"
    /\ log.calls[i].chan # << >>
    /\ log' = [log EXCEPT !.calls[i].pc = "returned",
                          !.calls[i].returned = Head(log.calls[i].chan),
                          !.calls[i].chan = Tail(log.calls[i].chan)]
    /\ LogFrame

\* part_008 125-131: the read check of ListLog
ListLogCheck(i, allowed) ==
    /\ log.calls[i].worker = "check"
    /\ log' = IF allowed
              THEN [log EXCEPT !.calls[i].worker = "flush"]
              ELSE [log EXCEPT !.calls[i].worker = "send",
                               !.calls[i].result = "error"]
    /\ LogFrame

\* part_008 132: sj.journal.FlushMatches()
ListLogFlush(i) ==
    /\ log.calls[i].worker = "flush"
    /\ log' = [log EXCEPT !.journal.matches = {},
                          !.calls[i].worker = "match"]
    /\ LogFrame

\* part_008 133-159: AddMatch for the unit and the boot
ListLogMatch(i) ==
    /\ log.calls[i].worker = "match"
    /\ log' = [log EXCEPT !.journal.matches = @ \cup {log.calls[i].unit},
                          !.calls[i].worker = "seek"]
    /\ LogFrame

\* part_008 160: seekAndSkip
ListLogSeek(i) ==
    /\ log.calls[i].worker = "seek"
    /\ log' = [log EXCEPT !.journal.cursor = i, !.calls[i].worker = "read"]
    /\ LogFrame

\* part_008 173-215: GetEntry and Next until the end, under the matches
\* and from the cursor the handle has
ListLogRead(i) ==
    /\ log.calls[i].worker = "read"
    /\ log' = [log EXCEPT !.calls[i].seen = log.journal,
                          !.calls[i].result = "result",
                          !.calls[i].worker = "send"]
    /\ LogFrame

\* part_008 104-108: resultChan <- result, on a channel of capacity 1
ListLogSend(i) ==
    /\ log.calls[i].worker = "send"
    /\ Len(log.calls[i].chan) < 1
    /\ log' = [log EXCEPT !.calls[i].chan = Append(@, log.calls[i].result),
                          !.calls[i].worker = "done"]
    /\ LogFrame

----------------------------------------------------------------------------
(* The job results of ChangeUnitState (src/internal/pkg/systemd/units.go   *)
(* 399-475 with CheckForRestartReloadRunning, 265-300): every start, stop, *)
(* restart and reload hands the one channel conn.rchannel to systemd,      *)
(* which sends the job's result on it when the job is removed.             *)

MaxJobs == 3
RChannelCap == 10
JobActions == {"start", "stop", "restart_force", "restart", "reload"}
JobResults == {"done", "failed"}
Finished == "Finished"

\* jobs: the channel's content (job and result), the jobs not yet
\* removed, the number of jobs started, and the call in progress with the
\* job it started, the text it returns and the job the text came from
NoJobCall == [pc |-> "idle", action |-> "", job |-> 0, text |-> "", from |-> 0]
NoJobs == [rchannel |-> << >>, running |-> {}, started |-> 0, call |-> NoJobCall]

JobFrame ==
    /\ UNCHANGED localVars
    /\ UNCHANGED <<remoteVars, stepVars>>
    /\ UNCHANGED <<login, proc, facade, tool, man, log>>

\* units.go 400-417: conn.dbus.<Start|Stop|Restart|ReloadOrRestart>
\* UnitContext(ctx, name, mode, conn.rchannel) of an authorized call; ok:
\* systemd accepts the job
UnitJobStart(action, ok) ==
    /\ jobs.call.pc = "idle"
    /\ jobs.started < MaxJobs
    /\ jobs' = IF ok
               THEN [jobs EXCEPT
                       !.started = @ + 1,
                       !.running = @ \cup {jobs.started + 1},
                       !.call = [NoJobCall EXCEPT !.pc = "select",
                                                  !.action = action,
                                                  !.job = jobs.started + 1]]
               ELSE [jobs EXCEPT
                       !.call = [NoJobCall EXCEPT !.pc = "returned",
                                                  !.action = action,
                                                  !.text = "error"]]
    /\ JobFrame

\* systemd removes a job: the result is sent on the channel given at start
JobRemoved(id, result) ==
    /\ id \in jobs.running
    /\ Len(jobs.rchannel) < RChannelCap
    /\ jobs' = [jobs EXCEPT
                  !.running = @ \ {id},
                  !.rchannel = Append(@, [job |-> id, result |-> result])]
    /\ JobFrame

\* units.go 274-299: select with a default clause: a result that is ready
\* on the channel is returned, otherwise "Finished" at once
UnitJobSelect ==
    /\ jobs.call.pc = "select"
    /\ jobs' = IF jobs.rchannel # << >>
               THEN [jobs EXCEPT
                       !.rchannel = Tail(@),
                       !.call.pc = "returned",
                       !.call.text = Head(jobs.rchannel).result,
                       !.call.from = Head(jobs.rchannel).job]
               ELSE [jobs EXCEPT !.call.pc = "returned",
                                 !.call.text = Finished]
    /\ JobFrame

\* The result goes to the client; the next call can start
UnitJobDone ==
    /\ jobs.call.pc = "returned"
    /\ jobs' = [jobs EXCEPT !.call = NoJobCall]
    /\ JobFrame

\* The operations behind the tools, not in use
AppIdle == man = NoMan /\ log = NoLog /\ jobs = NoJobs

\* The components outside the AuthKeeper and the verifier, not in use
SideIdle ==
    /\ login = NoLogin /\ proc = NoProc /\ facade = NoFacade /\ tool = NoTool
    /\ AppIdle

NoCall == [op |-> "none", arg |-> "", granted |-> FALSE, err |-> NoErr,
           pk |-> << >>, lookups |-> << >>, before |-> "", after |-> "",
           remote |-> FALSE]

\* NewOutah2Auth: an empty claims map; no call made yet
RemoteIdle ==
    /\ claims = << >>
    /\ verified = [token |-> [alg |-> "", sig |-> "", payload |-> << >>],
                   kind |-> "none", info |-> NoTokenInfo, err |-> NilError]
    /\ authz = Oauth2Outcome("none", NoTokenInfo, FALSE, NoErr)
    /\ jwks = [called |-> FALSE, resp |-> NoResponse, uri |-> << >>,
               err |-> NoErr]

\* main(): --noauth sets both capabilities; otherwise SetupDBus and the
\* --allow-read / --allow-write flags
InitLocal ==
    /\ noauth \in BOOLEAN
    /\ euid \in Euids
    /\ \E allowRead \in BOOLEAN, allowWrite \in BOOLEAN :
          /\ ReadAllowed = (noauth \/ allowRead)
          /\ WriteAllowed = (noauth \/ allowWrite)
    /\ sender = ""
    /\ sessionRemote \in BOOLEAN
    /\ last = NoCall
    /\ afterDeauth = FALSE

Init == InitLocal /\ RemoteIdle /\ StepIdle /\ SideIdle

Next ==
    \/ \E p \in Peers : \E a \in PolicyAnswers(p) : AuthRead(p, a)
    \/ \E p \in Peers : \E a \in PolicyAnswers(p) : AuthWrite(p, a)
    \/ \E p \in Peers : AuthRegister(p)
    \/ Deauthorize
    \/ \E l1 \in Lookups, l2 \in Lookups, ownerOk \in BOOLEAN,
          a \in {"authorized", "denied", "failed"}, t \in BOOLEAN :
          IsReadAuthorized(l1, l2, ownerOk, a, t)
    \/ \E perm \in Permissions, l1 \in Lookups, l2 \in Lookups, ownerOk \in BOOLEAN,
          a1 \in {"authorized", "denied", "failed"},
          a2 \in {"authorized", "denied", "failed"}, t \in BOOLEAN :
          IsWriteAuthorized(perm, l1, l2, ownerOk, a1, a2, t)
    \/ SwitchSession

Spec == Init /\ [][Next]_vars

\* The verifier as NewOutah2Auth builds it, the bridge not in use
LocalIdle ==
    /\ noauth = TRUE
    /\ euid = 0
    /\ ReadAllowed = TRUE
    /\ WriteAllowed = TRUE
    /\ sender = ""
    /\ sessionRemote = FALSE
    /\ last = NoCall
    /\ afterDeauth = FALSE

InitRemote == LocalIdle /\ RemoteIdle /\ StepIdle /\ SideIdle

NextVerify == \E token \in Tokens : VerifyJWT(token)

SpecVerify == InitRemote /\ [][NextVerify]_vars

NextRemote ==
    \/ \E ti \in TokenInfos : Oauth2IsWriteAuthorized(ti)
    \/ \E ti \in TokenInfos : Oauth2IsReadAuthorized(ti)
    \/ \E resp \in Responses : GetJwksURI(resp)

SpecRemote == InitRemote /\ [][NextRemote]_vars

\* A daemon on the bus, one check running by steps, the bus handlers running
\* in between
InitSteps ==
    /\ noauth = FALSE
    /\ euid \in Euids
    /\ ReadAllowed \in BOOLEAN
    /\ WriteAllowed = FALSE
    /\ sender = ""
    /\ sessionRemote \in BOOLEAN
    /\ last = NoCall
    /\ afterDeauth = FALSE
    /\ RemoteIdle
    /\ StepIdle
    /\ SideIdle

NextSteps ==
    \/ \E op \in {"IsReadAuthorized", "IsWriteAuthorized"} :
          \E perm \in Permissions : CheckStart(op, perm)
    \/ \E l \in Lookups : CheckLocal1(l)
    \/ \E ownerOk \in BOOLEAN : CheckOwner(ownerOk)
    \/ \E l \in Lookups : CheckLocal2(l)
    \/ CheckAsk1
    \/ \E a \in {"authorized", "denied", "failed"} : CheckAnswer1(a)
    \/ CheckAsk2
    \/ \E a \in {"authorized", "denied", "failed"} : CheckAnswer2(a)
    \/ CheckSelect
    \/ CheckReturn
    \/ Tick
    \/ \E p \in Peers : \E a \in PolicyAnswers(p) : AuthRead(p, a)
    \/ \E p \in Peers : \E a \in PolicyAnswers(p) : AuthWrite(p, a)
    \/ \E p \in Peers : AuthRegister(p)

SpecSteps == InitSteps /\ [][NextSteps]_vars

NextUnits ==
    \/ \E params \in Params, checked \in CheckResults :
          ChangeUnitState(params, checked)
    \/ \E ok \in BOOLEAN : UnitDispatch(ok)
    \/ \E ok \in BOOLEAN : CheckForRestartReloadRunning(ok)
    \/ UnitReturn
    \/ UnitDone

SpecUnits == InitRemote /\ [][NextUnits]_vars

\* The daemon in one login session of a host whose seats are idle at first,
\* sessions coming and going on the seats
InitLogin ==
    /\ LocalIdle /\ RemoteIdle /\ StepIdle
    /\ proc = NoProc /\ facade = NoFacade /\ tool = NoTool /\ AppIdle
    /\ \E host \in Hosts, own \in SessionIDs :
          /\ \A i \in 1..Len(host.seats) : host.seats[i] = NoActiveSession
          /\ login = [NoLogin EXCEPT !.host = host, !.own = own]

NextLogin ==
    \/ IsLocalCall
    \/ \E i \in 1..MaxSeats, answer \in ActiveSessions : SeatChange(i, answer)

SpecLogin == InitLogin /\ [][NextLogin]_vars

\* A process started with any options, on any state of the system bus
InitMain ==
    /\ LocalIdle /\ RemoteIdle /\ StepIdle
    /\ login = NoLogin /\ facade = NoFacade /\ tool = NoTool /\ AppIdle
    /\ \E flag \in Settings, env \in Settings,
          r \in BOOLEAN, w \in BOOLEAN, a \in BOOLEAN, h \in BOOLEAN,
          l \in BOOLEAN, up \in BOOLEAN, owner \in {"none", "other"} :
          proc = [NoProc EXCEPT !.pc = "start", !.noauth = flag,
                                !.noauthEnv = env, !.allowRead = r,
                                !.allowWrite = w, !.register = a, !.http = h,
                                !.listTools = l, !.busUp = up, !.owner = owner]

NextMain ==
    \/ \E callsOk \in BOOLEAN : MainClient(callsOk)
    \/ MainSetup
    \/ MainServe
    \/ \E up \in BOOLEAN, owner \in Owners : BusChange(up, owner)

SpecMain == InitMain /\ [][NextMain]_vars

\* A facade built by one of its constructors or as a literal, asked for its
\* mode and for the two capabilities
InitFacade ==
    /\ InitLocal /\ noauth = FALSE
    /\ RemoteIdle /\ StepIdle
    /\ login = NoLogin /\ proc = NoProc /\ tool = NoTool /\ AppIdle
    /\ facade = NoFacade

NextFacade ==
    \/ NewNoAuth
    \/ \E ok \in BOOLEAN : NewPolkitAuth(ok)
    \/ NewOauth2Auth
    \/ \E d \in BOOLEAN, o \in BOOLEAN : FacadeLiteral(d, o)
    \/ FacadeMode
    \/ FacadeIsReadAuthorized
    \/ FacadeIsWriteAuthorized

SpecFacade == InitFacade /\ [][NextFacade]_vars

\* The server with the tools main registers, one tool call at a time
InitTools ==
    /\ LocalIdle /\ RemoteIdle /\ StepIdle
    /\ login = NoLogin /\ proc = NoProc /\ facade = NoFacade /\ AppIdle
    /\ \E systemOk \in BOOLEAN, logOk \in BOOLEAN, enabled \in SUBSET AllTools :
          tool = [NoTool EXCEPT
                     !.registered = RegisteredTools(systemOk, logOk, enabled)]

NextTools ==
    \/ \E name \in AllTools : ToolCall(name)
    \/ \E result \in CheckResults : ToolCheck(result)
    \/ ToolWork
    \/ ToolReturn

SpecTools == InitTools /\ [][NextTools]_vars

\* parseAndFilterManPage on any page and any parameters
InitMan ==
    /\ LocalIdle /\ RemoteIdle /\ StepIdle
    /\ login = NoLogin /\ proc = NoProc /\ facade = NoFacade /\ tool = NoTool
    /\ log = NoLog /\ jobs = NoJobs
    /\ \E page \in ManPages, c \in ChapterFilters, o \in Offsets, l \in Limits :
          man = [NoMan EXCEPT !.lines = page,
                              !.params = [Chapters |-> c, Offset |-> o, Limit |-> l]]

NextMan == ParseAndFilter

SpecMan == InitMan /\ [][NextMan]_vars

\* A HostLog on an open journal, ListLogTimeout called once and again
InitLog ==
    /\ LocalIdle /\ RemoteIdle /\ StepIdle
    /\ login = NoLogin /\ proc = NoProc /\ facade = NoFacade /\ tool = NoTool
    /\ man = NoMan /\ jobs = NoJobs
    /\ log = [NoLog EXCEPT !.open = TRUE]

NextLog ==
    \/ \E i \in LogCalls, u \in LogUnits : ListLogTimeout(i, u)
    \/ \E i \in LogCalls : LogTimeout(i)
    \/ \E i \in LogCalls : LogReceive(i)
    \/ \E i \in LogCalls, allowed \in BOOLEAN : ListLogCheck(i, allowed)
    \/ \E i \in LogCalls : ListLogFlush(i)
    \/ \E i \in LogCalls : ListLogMatch(i)
    \/ \E i \in LogCalls : ListLogSeek(i)
    \/ \E i \in LogCalls : ListLogRead(i)
    \/ \E i \in LogCalls : ListLogSend(i)

SpecLog == InitLog /\ [][NextLog]_vars

\* A Connection with an empty result channel; authorized ChangeUnitState
\* calls one after the other, the jobs completing in systemd meanwhile
InitJobs ==
    /\ LocalIdle /\ RemoteIdle /\ StepIdle
    /\ login = NoLogin /\ proc = NoProc /\ facade = NoFacade /\ tool = NoTool
    /\ man = NoMan /\ log = NoLog
    /\ jobs = NoJobs

NextJobs ==
    \/ \E action \in JobActions, ok \in BOOLEAN : UnitJobStart(action, ok)
    \/ \E id \in 1..MaxJobs, result \in JobResults : JobRemoved(id, result)
    \/ UnitJobSelect
    \/ UnitJobDone

SpecJobs == InitJobs /\ [][NextJobs]_vars

----------------------------------------------------------------------------
(* Claims about the D-Bus bridge, checked under Spec.                      *)

Checks == {"IsReadAuthorized", "IsWriteAuthorized"}

\* The capability a check is about was pre-authorized at startup
PreAuthorized(op) ==
    \/ op = "IsReadAuthorized" /\ ReadAllowed
    \/ op = "IsWriteAuthorized" /\ WriteAllowed

\* C1: with --noauth every IsReadAuthorized and IsWriteAuthorized, with any
\* permission override and after any earlier calls (Deauthorize included),
\* returns (true, nil) and makes no IsLocal lookup and no CheckAuthorization
\* call.
C1_DisabledAlwaysGrants ==
    (noauth /\ last.op \in Checks) =>
        /\ last.granted
        /\ last.err = NoErr
        /\ last.lookups = << >>
        /\ last.pk = << >>

\* C1 witness: a write check with a permission override right after Deauthorize
C1_Witness ==
    /\ noauth
    /\ afterDeauth
    /\ last.op = "IsWriteAuthorized"
    /\ last.arg = ManageUnitFiles
    /\ last.granted

\* C2: without --noauth, with no capability pre-authorized, no peer recorded
\* and a remote session, both checks return (false, err) where err contains
\* "must be authorized externally", and no CheckAuthorization call is made.
C2_NonLocalMustBeAuthorizedExternally ==
    (/\ ~noauth
     /\ ~ReadAllowed
     /\ ~WriteAllowed
     /\ last.op \in Checks
     /\ last.before = ""
     /\ last.remote) =>
        /\ ~last.granted
        /\ ErrorContains(last.err, <<"must", "be", "authorized", "externally">>)
        /\ last.pk = << >>

\* The policy engine was asked, during the last call, about the peer that
\* call left recorded, and answered authorized
Revalidated ==
    /\ last.after # ""
    /\ \E i \in DOMAIN last.pk :
          /\ last.pk[i].subject = last.after
          /\ last.pk[i].answer = "authorized"

\* C3: without --noauth a check is granted only if its capability
\* was pre-authorized at startup or the policy engine authorized the recorded,
\* non-empty peer during that same call.
C3_GrantNeedsPreauthOrRevalidation ==
    (~noauth /\ last.op \in Checks /\ last.granted) =>
        (PreAuthorized(last.op) \/ Revalidated)

\* Every IsLocal() of the call got its answer from logind
LookupsAnswered(call) ==
    \A i \in DOMAIN call.lookups : call.lookups[i] = ~call.remote

\* C4: after a successful AuthRead(peer), the next IsReadAuthorized of a
\* non-root daemon without --allow-read asks the policy engine about that
\* peer and, when the engine authorizes it (and answers in time), returns
\* (true, nil), whether the session is local or not (logind answering every
\* lookup).
C4_NextReadUsesRegisteredPeer ==
    [][(/\ ~noauth
        /\ ~ReadAllowed
        /\ euid # 0
        /\ last.op = "AuthRead"
        /\ last.err = NoErr
        /\ last'.op = "IsReadAuthorized"
        /\ LookupsAnswered(last')) =>
           /\ Len(last'.pk) = 1
           /\ last'.pk[1].subject = last.arg
           /\ last'.pk[1].answer = "authorized" =>
                 \/ last'.granted /\ last'.err = NoErr
                 \/ last'.err = ErrTimedOut]_vars

\* C5: after Deauthorize has returned, the next IsWriteAuthorized of a
\* non-root daemon is granted only through a CheckAuthorization call made
\* during that call, never from write-capability state that existed before,
\* whatever that state was.
C5_WriteAfterDeauthorizeIsRechecked ==
    [][(/\ ~noauth
        /\ euid # 0
        /\ last.op = "Deauthorize"
        /\ last'.op = "IsWriteAuthorized"
        /\ last'.granted) =>
           last'.pk # << >>]_vars

Registrations == {"AuthRead", "AuthWrite"}

\* The permission the fallback check of a write check asks about
FallbackPermission(call) == IF call.arg = "" THEN ManageUnits ELSE call.arg

\* The policy checks of a write check that reached them, in their order:
\* <DbusName>.AuthWrite first, the caller's permission second and only after
\* the first was not granted, both about the recorded peer
OrderedWriteChecks(call) ==
    /\ Len(call.pk) \in {1, 2}
    /\ call.pk[1].action = DBusName \o ".AuthWrite"
    /\ call.pk[1].subject = call.after
    /\ Len(call.pk) = 2 <=> call.pk[1].answer # "authorized"
    /\ Len(call.pk) = 2 =>
          /\ call.pk[2].action = FallbackPermission(call)
          /\ call.pk[2].subject = call.after

SomeCheckGrants(call) ==
    \E i \in DOMAIN call.pk : call.pk[i].answer = "authorized"

FinalAnswer(call) == call.pk[Len(call.pk)].answer

ReportsTransport(err) == ErrorContains(err, <<"Error", "checking", "authorization:">>)
ReportsDenial(err) == ErrorContains(err, ErrAccessDenied)

\* C13: when the CheckAuthorization call that decides a registration or a
\* check fails in transport, the call returns not granted with an error that
\* reports the failed call and not a denial, a denial being reported by a
\* different error; AuthRead/AuthWrite then leave the recorded peer as it
\* was; and no call is granted without an authorized answer.
C13_TransportFailureFailsClosed ==
    (last.op \in Registrations \cup Checks /\ last.pk # << >>) =>
        /\ FinalAnswer(last) = "failed" =>
              /\ ~last.granted
              /\ ReportsTransport(last.err) /\ ~ReportsDenial(last.err)
              /\ last.op \in Registrations => last.after = last.before
        /\ FinalAnswer(last) = "denied" =>
              /\ ~last.granted
              /\ ReportsDenial(last.err) /\ ~ReportsTransport(last.err)
        /\ (last.granted \/ last.err = NoErr) => SomeCheckGrants(last)

\* C13 witness: AuthWrite of a second peer fails in transport while another
\* peer is recorded
C13_Witness ==
    /\ last.op = "AuthWrite"
    /\ last.pk # << >>
    /\ FinalAnswer(last) = "failed"
    /\ last.before \in Peers
    /\ last.arg # last.before

C15_RootAlwaysGranted ==
    (/\ ~noauth
     /\ euid = 0
     /\ last.op \in Checks
     /\ LookupsAnswered(last)
     /\ last.err # ErrTimedOut) =>
        /\ last.granted
        /\ last.err = NoErr
        /\ last.pk = << >>

C17_DeauthorizeReturnsNil ==
    last.op = "Deauthorize" => last.err = NoErr

\* C17 witness: Deauthorize without --noauth and with no peer recorded
C17_Witness ==
    /\ ~noauth
    /\ last.op = "Deauthorize"
    /\ last.before = ""
    /\ last.err = NoErr

\* C11: a check that asks the policy engine about a recorded peer returns
\* within the configured timeout: once the context of the call is created,
\* no more than Timeout ticks pass before the call has returned.  Checked
\* under SpecSteps.
C11_ChecksReturnWithinTimeout ==
    (/\ check.started
     /\ check.asked # << >>
     /\ check.asked[1].subject # "") => check.elapsed <= Timeout

\* C19: a check works on one value of the recorded peer: the first and the
\* fallback write check ask about the same peer, and the self-registration
\* of a check does not replace a peer that a registration has recorded.
\* Checked under SpecSteps.
C19_CheckSeesOnePeer ==
    /\ Len(check.asked) = 2 => check.asked[1].subject = check.asked[2].subject
    /\ check.replaced = ""

\* C20: ChangeUnitState issues a systemd call only after its write check
\* returned (true, nil), and has called Deauthorize exactly once when it has
\* returned, not before, whatever the path.  Checked under SpecUnits.
C20_CallAfterGrantDeauthorizeOnce ==
    /\ unit.calls # << >> => (unit.allowed /\ unit.err = NoErr)
    /\ unit.pc = "returned" => unit.deauthorized = 1
    /\ unit.pc \in {"checked", "waiting", "returning"} => unit.deauthorized = 0

\* C20 witness: a granted start whose systemd call failed has returned
C20_Witness ==
    /\ unit.pc = "returned"
    /\ unit.calls = <<"StartUnit">>
    /\ unit.result = ErrSystemd
    /\ unit.deauthorized = 1

----------------------------------------------------------------------------
(* Claims about the OAuth2 verifier and the key-set discovery.             *)

HasRole(ti, role) == ti.roles # << >> /\ role \in ti.roles[1]

\* The error names the missing role and not the scope
ReportsMissingRole(err) ==
    /\ ErrorContains(err, <<"mcp-admin=false)">>)
    /\ ~ErrorContains(err, <<"(mcp:write=false,">>)

\* C6: the remote IsWriteAuthorized returns (true, nil) if and only if the
\* token info of the call has scope mcp:write and role mcp-admin; with scopes
\* mcp:read mcp:write and an empty role list it returns (false, err), err
\* reporting the missing role.  Checked under SpecRemote.
C6_WriteNeedsScopeAndRole ==
    authz.op = "IsWriteAuthorized" =>
        /\ (authz.granted /\ authz.err = NoErr) <=>
              /\ authz.ti.present
              /\ Contains(authz.ti.Scopes, <<"mcp:write">>)
              /\ HasRole(authz.ti, "mcp-admin")
        /\ (/\ authz.ti.present
            /\ authz.ti.Scopes = << <<"mcp:read">>, <<"mcp:write">> >>
            /\ authz.ti.roles = << {} >>) =>
              (~authz.granted /\ ReportsMissingRole(authz.err))

\* C7: the remote IsReadAuthorized returns (true, nil) if and only if the
\* context carries token info whose scopes contain mcp:read, whatever the
\* roles; otherwise it returns (false, err).  Checked under SpecRemote.
C7_ReadNeedsReadScope ==
    authz.op = "IsReadAuthorized" =>
        /\ (authz.granted /\ authz.err = NoErr) <=>
              (authz.ti.present /\ Contains(authz.ti.Scopes, <<"mcp:read">>))
        /\ ~authz.granted => authz.err # NoErr
        /\ authz.granted => authz.err = NoErr

\* C7 witness: a read granted to a token info with an empty role list
C7_Witness ==
    /\ authz.op = "IsReadAuthorized"
    /\ authz.granted
    /\ authz.ti.roles = << {} >>
    /\ authz.ti.Scopes = << <<"mcp:read">>, <<"mcp:write">> >>

\* The checks on the token itself: the audience it carries lists the service
\* audience, and it carries no expiration in the past
OwnAudienceOk(token) ==
    "aud" \in DOMAIN token.payload /\ Audience \in token.payload["aud"]
OwnNotExpired(token) ==
    "exp" \notin DOMAIN token.payload \/ token.payload["exp"] # "past"

\* C8: VerifyJWT returns a token info only for a token whose signature
\* validates against a key of the key set, whose algorithm is RS256, whose
\* audience is the service audience and which is not expired.  Checked
\* under SpecVerify.
C8_TokenInfoOnlyIfAllChecksPass ==
    verified.kind = "info" =>
        /\ verified.token.sig = "valid"
        /\ verified.token.alg = "RS256"
        /\ OwnAudienceOk(verified.token)
        /\ OwnNotExpired(verified.token)

\* C9: every failed verification returns one and the same error, which is
\* auth.ErrInvalidToken, whichever check failed.  Checked under SpecVerify.
C9_FailuresAreOpaque ==
    verified.kind = "error" =>
        verified.err = Error(ErrInvalidToken, {"auth.ErrInvalidToken"})

\* C10: GetJwksURI returns an error, never a success with an empty location,
\* when the document lacks jwks_uri, cannot be fetched, or is answered with
\* a status other than 200.  Checked under SpecRemote.
C10_NoEmptyKeySetLocation ==
    jwks.called =>
        /\ (\/ ~jwks.resp.reachable
            \/ jwks.resp.status # StatusOK
            \/ "jwks_uri" \notin DOMAIN jwks.resp.doc) => jwks.err # NoErr
        /\ jwks.err = NoErr => jwks.uri # << >>

\* C18: the token info VerifyJWT returns for a token carries that token's
\* own scope and expiration and nothing of a token verified before it on the
\* same verifier.  Checked under SpecVerify.
C18_TokenInfoFromOwnClaims ==
    verified.kind = "info" =>
        /\ "scope" \in DOMAIN verified.token.payload
        /\ verified.token.payload["scope"].string
        /\ verified.info.Scopes = Split(verified.token.payload["scope"].s)
        /\ "exp" \in DOMAIN verified.token.payload
        /\ verified.info.Expiration = verified.token.payload["exp"]

----------------------------------------------------------------------------
(* Claims about the session locality detector, checked under SpecLogin.    *)

AllLookupsSucceeded(result) ==
    \A i \in 1..Len(result.lookups) : result.lookups[i]

\* The Remote property of session s is readable and is the boolean false
RemoteIsFalse(host, s) ==
    /\ s \in SessionIDs
    /\ host.remote[s] = [ok |-> TRUE, bool |-> TRUE, value |-> FALSE]

\* The seat's ActiveSession is readable and names a session
NamesSession(seat) == seat.ok /\ seat.pair /\ seat.id # ""

C22_IsLocalReportsOwnSession ==
    (/\ login.called
     /\ AllLookupsSucceeded(login.result)
     /\ login.result.session \in login.host.sessions
     /\ login.host.remote[login.result.session].bool
     /\ login.own \in login.host.sessions
     /\ login.host.remote[login.own].ok
     /\ login.host.remote[login.own].bool)
    => login.result.local = ~login.host.remote[login.own].value

----------------------------------------------------------------------------
(* Further claims about token verification, checked under SpecVerify.      *)

\* The error's message names the invalid-token error
NamesInvalidToken(err) ==
    \/ ErrorContains(err.msg, ErrInvalidToken)
    \/ ErrorContains(err.msg, WrapInvalidToken(<< >>))

\* C23: a token that carries no expiration claim is rejected by VerifyJWT
\* with the invalid-token error, as an expired token is; it is neither
\* accepted nor does the call end in any other way.
C23_MissingExpirationIsRejected ==
    (verified.kind # "none" /\ "exp" \notin DOMAIN verified.token.payload) =>
        /\ verified.kind = "error"
        /\ NamesInvalidToken(verified.err)

----------------------------------------------------------------------------
(* Claims about the start of the process, checked under SpecMain.          *)

\* The AuthKeeper main builds for disabled mode: no bus connection, both
\* capabilities set
DisabledMode ==
    /\ proc.pc \in {"tools", "serving"}
    /\ ~proc.keeper.Conn
    /\ proc.keeper.ReadAllowed /\ proc.keeper.WriteAllowed

\* The bridge is in place: connected, owning the bus name
BridgeActive ==
    proc.keeper.Conn /\ proc.busUp /\ proc.owner = "self"

\* A process whose bus setup failed has exited with status 1, and a process
\* that serves is in disabled mode or has the bridge in place
ServesOnlyWithBackend ==
    /\ proc.setupFailed => proc.pc = "exited" /\ proc.exit = 1
    /\ proc.pc \in {"tools", "serving"} => DisabledMode \/ BridgeActive

----------------------------------------------------------------------------
(* Claims about the authorization facade, checked under SpecFacade.        *)

\* C25: Mode() reports exactly one mode: the facade of NewNoAuth reports
\* noauth (0), the facade of NewPolkitAuth reports 2, and a facade value
\* with both the bus backend and the token backend set reports noauth (0).
C25_ModeIsOneMode ==
    facade.asked =>
        /\ \E i \in 1..Len(AuthModes) :
              /\ facade.mode = i - 1
              /\ \A j \in 1..Len(AuthModes) : facade.mode = j - 1 => j = i
        /\ facade.made = "NewNoAuth" => facade.mode = 0
        /\ facade.made = "NewPolkitAuth" => facade.mode = 2
        /\ facade.Dbus /\ facade.Oauth2 => facade.mode = 0

\* Mode() has been asked of a facade value with both backends set
C25_Witness ==
    facade.asked /\ facade.made = "literal" /\ facade.Dbus /\ facade.Oauth2

----------------------------------------------------------------------------
(* Claims about the tool handlers, checked under SpecTools.                *)

\* C26: every registered tool handler makes the read or the write check
\* first and does its work only when the check returned (true, nil).
C26_EveryToolChecksFirst ==
    (tool.pc = "work" \/ tool.worked) =>
        /\ tool.check.made \in {"read", "write"}
        /\ tool.check.allowed
        /\ tool.check.err = NoErr

----------------------------------------------------------------------------
(* Claims about the manual page tool, checked under SpecMan.               *)

\* The header lines of a page in order, as names
HeaderNames(lines) ==
    LET headers == SelectSeq(lines, IsHeader)
    IN [i \in 1..Len(headers) |-> TrimSpace(headers[i])]

\* The lines left after chapter filtering
FilteredLines(lines, requested) ==
    FilterChapters(lines, ParseChapters(lines, 1, << >>), requested)

\* C27: for every page, chapter filter, offset and limit the function
\* returns a result with Chapters the header lines in order, TotalLines the
\* number of lines left after chapter filtering, and Content the filtered
\* lines from index offset up to min(offset + limit, TotalLines) joined by
\* newlines, a limit <= 0 meaning 2000, and empty when offset >= TotalLines.
C27_ManPageIsPaged ==
    man.called =>
        LET filtered == FilteredLines(man.lines, man.params.Chapters)
            total == Len(filtered)
            limit == IF man.params.Limit <= 0 THEN DefaultLimit
                     ELSE man.params.Limit
            upTo == IF man.params.Offset + limit < total
                    THEN man.params.Offset + limit ELSE total
        IN /\ man.result.kind = "result"
           /\ man.result.Chapters = HeaderNames(man.lines)
           /\ man.result.TotalLines = total
           /\ man.result.Content =
                 IF man.params.Offset >= total THEN << >>
                 ELSE JoinLines([i \in 1..(upTo - man.params.Offset) |->
                                    filtered[man.params.Offset + i]])

----------------------------------------------------------------------------
(* Further claims about the D-Bus bridge, checked under Spec.              *)

\* C28: a check that ends not granted or with an error leaves the recorded
\* peer as it was before the call.
C28_FailedCheckKeepsPeer ==
    (last.op \in Checks /\ (~last.granted \/ last.err # NoErr)) =>
        last.after = last.before

----------------------------------------------------------------------------
(* Claims about the journal tool, checked under SpecLog.                   *)

\* The ListLog of call i is between its FlushMatches and the end of its
\* reading
UsesJournal(i) == log.calls[i].worker \in {"match", "seek", "read"}

\* C29: at most one ListLog uses the journal handle at a time: the ListLog
\* of a call that has returned its timeout error is not at work on the
\* handle while the ListLog of a later call is; and a worker that has its
\* result can always deliver it.
C29_OneListLogAtATime ==
    /\ \A i \in LogCalls, j \in LogCalls :
          (i < j /\ log.calls[i].returned = "timeout" /\ UsesJournal(j))
              => ~UsesJournal(i)
    /\ \A i \in LogCalls :
          log.calls[i].worker = "send" => Len(log.calls[i].chan) < 1

----------------------------------------------------------------------------
(* Claims about the job results, checked under SpecJobs.                   *)

\* C30: the result ChangeUnitState returns for a start, stop, restart or
\* reload is about the job this call started: a result taken from the
\* channel is the result of this call's job, and "Finished" is returned
\* only when this call's job has completed.
C30_ResultIsOfOwnJob ==
    (jobs.call.pc = "returned" /\ jobs.call.job # 0) =>
        /\ jobs.call.from # 0 => jobs.call.from = jobs.call.job
        /\ jobs.call.text = Finished => jobs.call.job \notin jobs.running

====
